---- MODULE Spec2Model ----
(***************************************************************************)
(* Model of the filter-string parser and the cursor pagination helpers of  *)
(* the autotask Go client (package autotask).                              *)
(*                                                                         *)
(* Go strings are modelled as sequences of one-character strings, so that  *)
(* strings.Split, strings.TrimSpace, strings.ToUpper ... are computed the  *)
(* way the library computes them.                                          *)
(***************************************************************************)
EXTENDS Integers, Sequences, FiniteSets, TLC

(***************************************************************************)
(* Bounds of the model                                                     *)
(***************************************************************************)
MaxTokens == 3

MaxPages == 3

MaxPageItems == 2

MaxRequests == 5

MaxNextCalls == 7

MaxTargetPage == 4

MaxSegments == 2

MaxRegistrations == 3

(***************************************************************************)
(* package strings                                                         *)
(***************************************************************************)
LowerChars == <<"a","b","c","d","e","f","g","h","i","j","k","l","m",
                "n","o","p","q","r","s","t","u","v","w","x","y","z">>

UpperChars == <<"A","B","C","D","E","F","G","H","I","J","K","L","M",
                "N","O","P","Q","R","S","T","U","V","W","X","Y","Z">>

Digits == <<"0","1","2","3","4","5","6","7","8","9">>

ToUpperChar(c) ==
    IF \E i \in 1..26 : LowerChars[i] = c
    THEN UpperChars[CHOOSE i \in 1..26 : LowerChars[i] = c]
    ELSE c

ToLowerChar(c) ==
    IF \E i \in 1..26 : UpperChars[i] = c
    THEN LowerChars[CHOOSE i \in 1..26 : UpperChars[i] = c]
    ELSE c

ToUpper(s) == [i \in 1..Len(s) |-> ToUpperChar(s[i])]

ToLower(s) == [i \in 1..Len(s) |-> ToLowerChar(s[i])]

\* strings.Index, 1-based; 0 when sep does not occur in s
Index(s, sep) ==
    LET hits == {i \in 1..(Len(s) - Len(sep) + 1) :
                    SubSeq(s, i, i + Len(sep) - 1) = sep}
    IN IF hits = {} THEN 0
       ELSE CHOOSE i \in hits : \A j \in hits : i <= j

Contains(s, sep) == Index(s, sep) # 0

RECURSIVE Split(_, _)
\* strings.Split for a non-empty separator: every non-overlapping occurrence,
\* left to right
Split(s, sep) ==
    LET i == Index(s, sep)
    IN IF i = 0 THEN <<s>>
       ELSE <<SubSeq(s, 1, i - 1)>> \o Split(SubSeq(s, i + Len(sep), Len(s)), sep)

IsSpace(c) == c \in {" ", "\t", "\n", "\r"}

\* strings.Trim with the characters to cut given as a set
TrimSet(s, cut) ==
    LET keep == {i \in 1..Len(s) : s[i] \notin cut}
    IN IF keep = {} THEN <<>>
       ELSE LET lo == CHOOSE i \in keep : \A j \in keep : i <= j
                hi == CHOOSE i \in keep : \A j \in keep : j <= i
            IN SubSeq(s, lo, hi)

TrimSpace(s) == TrimSet(s, {" ", "\t", "\n", "\r"})

HasPrefix(s, p) == Len(s) >= Len(p) /\ SubSeq(s, 1, Len(p)) = p

HasSuffix(s, p) == Len(s) >= Len(p) /\ SubSeq(s, Len(s) - Len(p) + 1, Len(s)) = p

(***************************************************************************)
(* package fmt: Sscanf with one verb and one operand                       *)
(***************************************************************************)
IsDigit(c) == \E i \in 1..10 : Digits[i] = c

DigitVal(c) == (CHOOSE i \in 1..10 : Digits[i] = c) - 1

\* number of consecutive digits of s from position i on
RECURSIVE DigitRun(_, _)
DigitRun(s, i) ==
    IF i <= Len(s) /\ IsDigit(s[i]) THEN 1 + DigitRun(s, i + 1) ELSE 0

SignLen(s) == IF Len(s) > 0 /\ s[1] \in {"-", "+"} THEN 1 ELSE 0

\* the digits of the integer token at the start of s (after the sign)
IntDigits(s) == SubSeq(s, SignLen(s) + 1, SignLen(s) + DigitRun(s, SignLen(s) + 1))

\* the token %d accepts at the start of s is a number
LexInt(s) == Len(IntDigits(s)) > 0

\* the digits after the decimal point of the float token at the start of s
FracDigits(s) ==
    LET d == SignLen(s) + Len(IntDigits(s)) + 1
    IN IF d <= Len(s) /\ s[d] = "." THEN SubSeq(s, d + 1, d + DigitRun(s, d + 1))
       ELSE <<>>

\* the token %f accepts at the start of s is a number
LexFloat(s) == Len(IntDigits(s)) + Len(FracDigits(s)) > 0

RECURSIVE DigitsVal(_)
DigitsVal(u) ==
    IF Len(u) = 0 THEN 0
    ELSE 10 * DigitsVal(SubSeq(u, 1, Len(u) - 1)) + DigitVal(u[Len(u)])

SignOf(s) == IF Len(s) > 0 /\ s[1] = "-" THEN -1 ELSE 1

\* operand kinds scanOne can store a %d / %f token into; a pointer to any
\* other kind (a struct among them) makes it fail with "can't scan type"
ScannableKinds == {"int64", "float64"}

\* fmt.Sscanf(s, verb, operand): err == nil
SscanfOk(s, verb, kind) ==
    /\ kind \in ScannableKinds
    /\ IF verb = "%d" THEN LexInt(s) ELSE LexFloat(s)

(***************************************************************************)
(* query filters                                                           *)
(***************************************************************************)
OperatorEquals == "eq"

OperatorNotEquals == "noteq"

OperatorContains == "contains"

OperatorGreaterThan == "greaterThan"

OperatorLessThan == "lessThan"

LogicalOperatorAnd == "and"

LogicalOperatorOr == "or"

\* values of the dynamic type interface{}
NilValue == [t |-> "nil"]

BoolValue(b) == [t |-> "bool", b |-> b]

IntValue(n) == [t |-> "int64", n |-> n]

FloatValue(w, f) == [t |-> "float64", whole |-> w, frac |-> f]

StringValue(s) == [t |-> "string", s |-> s]

NoFilter == [kind |-> "nil"]

NewQueryFilter(field, operator, value) ==
    [kind |-> "QueryFilter", Field |-> field, Operator |-> operator, Value |-> value]

\* QueryFilter{}
ZeroQueryFilter == NewQueryFilter(<<>>, "", NilValue)

NewAndFilterGroup(items) ==
    [kind |-> "FilterGroup", Operator |-> LogicalOperatorAnd, Items |-> items]

NewOrFilterGroup(items) ==
    [kind |-> "FilterGroup", Operator |-> LogicalOperatorOr, Items |-> items]

\* isNumeric scans into a *struct{}, an operand scanOne cannot store into
isNumeric(s) == SscanfOk(s, "%f", "struct")

parseInt(s) ==
    IF SscanfOk(s, "%d", "int64") THEN SignOf(s) * DigitsVal(IntDigits(s)) ELSE 0

parseFloat(s) ==
    IF SscanfOk(s, "%f", "float64")
    THEN FloatValue(SignOf(s) * DigitsVal(IntDigits(s)), FracDigits(s))
    ELSE FloatValue(0, <<>>)

\* string values lose their surrounding quotes, as contains values do
parseValueWithOperator_Unquoted(field, operator, valueStr) ==
    IF valueStr = <<"t","r","u","e">> THEN NewQueryFilter(field, operator, BoolValue(TRUE))
    ELSE IF valueStr = <<"f","a","l","s","e">> THEN NewQueryFilter(field, operator, BoolValue(FALSE))
    ELSE NewQueryFilter(field, operator, StringValue(TrimSet(valueStr, {"'", "\""})))

parseValueWithOperator(field, operator, valueStr) ==
    IF valueStr = <<"t","r","u","e">> THEN NewQueryFilter(field, operator, BoolValue(TRUE))
    ELSE IF valueStr = <<"f","a","l","s","e">> THEN NewQueryFilter(field, operator, BoolValue(FALSE))
    ELSE IF isNumeric(valueStr)
         THEN IF ~Contains(valueStr, <<".">>)
              THEN NewQueryFilter(field, operator, IntValue(parseInt(valueStr)))
              ELSE NewQueryFilter(field, operator, parseFloat(valueStr))
         ELSE NewQueryFilter(field, operator, StringValue(valueStr))

TokNotEquals == <<"!", "=">>

TokContains == <<" ", "c", "o", "n", "t", "a", "i", "n", "s", " ">>

TokAnd == <<" ", "A", "N", "D", " ">>

TokOr == <<" ", "O", "R", " ">>

\* parseSimpleFilter knowing ">=" and "<=" as operators of their own
parseSimpleFilter_WithOrEqual(filterStr) ==
    LET ge == Split(filterStr, <<">", "=">>)
        le == Split(filterStr, <<"<", "=">>)
        eq == Split(filterStr, <<"=">>)
    IN IF Contains(filterStr, <<">", "=">>) /\ Len(ge) = 2
       THEN parseValueWithOperator(TrimSpace(ge[1]), "greaterOrEqual", TrimSpace(ge[2]))
       ELSE IF Contains(filterStr, <<"<", "=">>) /\ Len(le) = 2
       THEN parseValueWithOperator(TrimSpace(le[1]), "lessOrEqual", TrimSpace(le[2]))
       ELSE IF Len(eq) = 2
       THEN parseValueWithOperator(TrimSpace(eq[1]), OperatorEquals, TrimSpace(eq[2]))
       ELSE ZeroQueryFilter

parseSimpleFilter(filterStr) ==
    LET ne == Split(filterStr, TokNotEquals)
        co == Split(ToLower(filterStr), TokContains)
        gt == Split(filterStr, <<">">>)
        lt == Split(filterStr, <<"<">>)
        eq == Split(filterStr, <<"=">>)
    IN IF Contains(filterStr, TokNotEquals) /\ Len(ne) = 2
       THEN parseValueWithOperator(TrimSpace(ne[1]), OperatorNotEquals, TrimSpace(ne[2]))
       ELSE IF Contains(ToLower(filterStr), TokContains) /\ Len(co) = 2
       THEN NewQueryFilter(TrimSpace(co[1]), OperatorContains,
                           StringValue(TrimSet(TrimSpace(co[2]), {"'", "\""})))
       ELSE IF Contains(filterStr, <<">">>) /\ Len(gt) = 2
       THEN parseValueWithOperator(TrimSpace(gt[1]), OperatorGreaterThan, TrimSpace(gt[2]))
       ELSE IF Contains(filterStr, <<"<">>) /\ Len(lt) = 2
       THEN parseValueWithOperator(TrimSpace(lt[1]), OperatorLessThan, TrimSpace(lt[2]))
       ELSE IF Len(eq) = 2
       THEN parseValueWithOperator(TrimSpace(eq[1]), OperatorEquals, TrimSpace(eq[2]))
       ELSE ZeroQueryFilter

\* the simple filters of the parts of one split
SimpleFilters(parts) == [i \in 1..Len(parts) |-> parseSimpleFilter(TrimSpace(parts[i]))]

\* a run-time panic: a slice expression whose bounds are out of range
Panicked == [kind |-> "panic"]

\* s[lo : hi] of Go (0-based, hi excluded)
Slice(s, lo, hi) == SubSeq(s, lo + 1, hi)

SliceInRange(s, lo, hi) == 0 <= lo /\ lo <= hi /\ hi <= Len(s)

\* the text between the parentheses of a wrapped part, parsed as a group of
\* the inner connective when it holds one
nestedGroup(nestedPart, inner) ==
    IF Contains(ToUpper(nestedPart), inner)
    THEN IF inner = TokOr
         THEN NewOrFilterGroup(SimpleFilters(Split(ToUpper(nestedPart), inner)))
         ELSE NewAndFilterGroup(SimpleFilters(Split(ToUpper(nestedPart), inner)))
    ELSE parseSimpleFilter(nestedPart)

\* a part that is not taken as a group: the parentheses are left in the text
NestedPart_Flat(rawPart, inner) == parseSimpleFilter(TrimSpace(rawPart))

\* one part of parseNestedFilter's outer split; inner is the connective
\* looked for inside a parenthesised part
NestedPart(rawPart, inner) ==
    IF HasPrefix(TrimSpace(rawPart), <<"(">>) /\ HasSuffix(TrimSpace(rawPart), <<")">>)
    THEN IF SliceInRange(TrimSpace(rawPart), 1, Len(TrimSpace(rawPart)) - 1)
         THEN nestedGroup(Slice(TrimSpace(rawPart), 1, Len(TrimSpace(rawPart)) - 1), inner)
         ELSE Panicked
    ELSE parseSimpleFilter(TrimSpace(rawPart))

parseNestedFilter(filterStr) ==
    IF Contains(ToUpper(filterStr), TokAnd)
    THEN LET parts == Split(ToUpper(filterStr), TokAnd)
         IN NewAndFilterGroup([i \in 1..Len(parts) |-> NestedPart(parts[i], TokOr)])
    ELSE IF Contains(ToUpper(filterStr), TokOr)
    THEN LET parts == Split(ToUpper(filterStr), TokOr)
         IN NewOrFilterGroup([i \in 1..Len(parts) |-> NestedPart(parts[i], TokAnd)])
    ELSE parseSimpleFilter(filterStr)

\* the connectives looked for in the other order
parseComplexFilter_OrFirst(filterStr) ==
    IF Contains(filterStr, <<"(">>) /\ Contains(filterStr, <<")">>)
    THEN parseNestedFilter(filterStr)
    ELSE IF Contains(ToUpper(filterStr), TokOr)
    THEN NewOrFilterGroup(SimpleFilters(Split(ToUpper(filterStr), TokOr)))
    ELSE IF Contains(ToUpper(filterStr), TokAnd)
    THEN NewAndFilterGroup(SimpleFilters(Split(ToUpper(filterStr), TokAnd)))
    ELSE parseSimpleFilter(filterStr)

parseComplexFilter(filterStr) ==
    IF Contains(filterStr, <<"(">>) /\ Contains(filterStr, <<")">>)
    THEN parseNestedFilter(filterStr)
    ELSE IF Contains(ToUpper(filterStr), TokAnd)
    THEN NewAndFilterGroup(SimpleFilters(Split(ToUpper(filterStr), TokAnd)))
    ELSE IF Contains(ToUpper(filterStr), TokOr)
    THEN NewOrFilterGroup(SimpleFilters(Split(ToUpper(filterStr), TokOr)))
    ELSE parseSimpleFilter(filterStr)

\* a condition that cannot be parsed gives no filter at all
ParseFilterString_NilWhenUnparsed(filterStr) ==
    IF filterStr = <<>> THEN NoFilter
    ELSE IF Contains(ToUpper(filterStr), TokAnd) \/ Contains(ToUpper(filterStr), TokOr)
    THEN parseComplexFilter(filterStr)
    ELSE IF parseSimpleFilter(filterStr) = ZeroQueryFilter THEN NoFilter
    ELSE parseSimpleFilter(filterStr)

ParseFilterString(filterStr) ==
    IF filterStr = <<>> THEN NoFilter
    ELSE IF Contains(ToUpper(filterStr), TokAnd) \/ Contains(ToUpper(filterStr), TokOr)
    THEN parseComplexFilter(filterStr)
    ELSE parseSimpleFilter(filterStr)

(***************************************************************************)
(* State                                                                   *)
(***************************************************************************)
VARIABLES
    pages,        \* the server: its chain of pages, page k+1 behind page k's cursor
    op,           \* the operation the caller runs: "idle" before it has chosen
    pc,           \* position inside a bulk helper
    requests,     \* the requests issued so far, in order, with what was served
    it,           \* the PaginationIterator, NoIterator when none was returned
    nextCalls,    \* number of Next() calls made on the iterator
    lastNext,     \* what the last Next() call returned and whether it fetched
    yielded,      \* Item() read after every Next() that returned true
    response,     \* the helper's response variable, decoded into by every Do
    nextPageUrl,  \* the helper's local nextPageUrl
    allItems,     \* FetchAllPages: the accumulated items
    currentPage,  \* the helper's local page counter
    cbLog,        \* the (items, pageDetails) the callback was invoked with
    call,         \* the arguments the operation was called with
    result,       \* what the operation returned
    input,        \* the filter string handed to the parser
    parsed,       \* the parser's result, NotParsed before the call
    client,       \* the client's zone information and base URL, and its last call
    webhook       \* the webhook service: secret, handlers, last request handled

vars == <<pages, op, pc, requests, it, nextCalls, lastNext, yielded, response,
          nextPageUrl, allItems, currentPage, cbLog, call, result, input, parsed,
          client, webhook>>

pagVars == <<pages, op, pc, requests, it, nextCalls, lastNext, yielded, response,
             nextPageUrl, allItems, currentPage, cbLog, call, result>>

(***************************************************************************)
(* The server and the transport                                            *)
(***************************************************************************)
\* the empty cursor ""; the cursor URL of page k is the number k >= 2
EmptyUrl == 0

\* a nextPageUrl that is null or missing in the response body
Absent == -1

\* totals a server may report, unrelated to what it really serves
ReportedCounts == {0, 9}

\* page numbers a server may report for every page
ReportedPageNumbers == {0, 5}

RECURSIVE SumTo(_, _)
SumTo(sizes, k) == IF k = 0 THEN 0 ELSE sizes[k] + SumTo(sizes, k - 1)

\* a chain of pages; items are numbered in server order; the last page has
\* no cursor, written either as "" or as null (lastForm); every body carries
\* an items array, possibly empty
Server(sizes, lastForm, count, pnum) ==
    [k \in 1..Len(sizes) |->
        [items      |-> [i \in 1..sizes[k] |-> [id |-> SumTo(sizes, k - 1) + i]],
         next       |-> IF k < Len(sizes) THEN k + 1 ELSE lastForm,
         count      |-> count,
         pageNumber |-> pnum]]

Servers ==
    {Server(sizes, lastForm, count, pnum) :
        sizes \in UNION {[1..n -> 0..MaxPageItems] : n \in 1..MaxPages},
        lastForm \in {EmptyUrl, Absent},
        count \in ReportedCounts,
        pnum \in ReportedPageNumbers}

\* the items of all pages of the chain, in server order
RECURSIVE ItemsUpTo(_)
ItemsUpTo(k) == IF k = 0 THEN <<>> ELSE ItemsUpTo(k - 1) \o pages[k].items

ZeroPageDetails == [PageNumber |-> 0, Count |-> 0, NextPageUrl |-> EmptyUrl]

ZeroResponse == [Items |-> <<>>, PageDetails |-> ZeroPageDetails]

EntityQueryParams(filter, maxRecords, page) ==
    [kind |-> "query", filter |-> filter, maxRecords |-> maxRecords, page |-> page]

NewEntityQueryParams(filter) == EntityQueryParams(filter, 0, 0)

WithMaxRecords(p, max) == [p EXCEPT !.maxRecords = max]

WithPage(p, page) == [p EXCEPT !.page = page]

\* a request whose target is a cursor URL, used verbatim
UrlRequest(url) == [kind |-> "url", url |-> url]

\* var queryFilter interface{}; if filter != "" { queryFilter = ParseFilterString(filter) }
QueryFilterOf(filter) == IF filter # <<>> THEN ParseFilterString(filter) ELSE NoFilter

\* the page the server answers a request with
Serve(req) == IF req.kind = "query" THEN pages[1] ELSE pages[req.url]

\* json.Unmarshal(body, &resp): a field that is null or missing in the body
\* leaves the field of resp as it was
Unmarshal(resp, body) ==
    [Items       |-> body.items,
     PageDetails |-> [PageNumber  |-> body.pageNumber,
                      Count       |-> body.count,
                      NextPageUrl |-> IF body.next = Absent
                                      THEN resp.PageDetails.NextPageUrl
                                      ELSE body.next]]

\* the entry of the request log for a request and its outcome
Issued(req, ok) == [req |-> req, ok |-> ok]

(***************************************************************************)
(* PaginationIterator                                                      *)
(***************************************************************************)
NoIterator == [exists |-> FALSE]

NotCalled == [called |-> FALSE]

\* the request loadNextPage builds, NoRequest when it returns early
NoRequest == [kind |-> "none"]

\* loadNextPage building the first-page query for every page
loadRequest_AlwaysQuery(p) ==
    WithMaxRecords(NewEntityQueryParams(QueryFilterOf(p.filter)), p.pageSize)

\* loadNextPage leaving max-records out of the first-page query
loadRequest_NoMaxRecords(p) ==
    IF p.currentPage = 1
    THEN NewEntityQueryParams(QueryFilterOf(p.filter))
    ELSE IF p.nextPageUrl # EmptyUrl
    THEN UrlRequest(p.nextPageUrl)
    ELSE NoRequest

loadRequest(p) ==
    IF p.currentPage = 1
    THEN WithMaxRecords(NewEntityQueryParams(QueryFilterOf(p.filter)), p.pageSize)
    ELSE IF p.nextPageUrl # EmptyUrl
    THEN UrlRequest(p.nextPageUrl)
    ELSE NoRequest

\* p.hasMore as loadNextPage sets it from the decoded response
hasMore(resp) == resp.PageDetails.NextPageUrl # EmptyUrl /\ Len(resp.Items) > 0

\* loadNextPage from the decoded response on: the iterator state is updated
storePage(p, req, resp) ==
    [p |-> [p EXCEPT
              !.items       = resp.Items,
              !.totalCount  = resp.PageDetails.Count,
              !.nextPageUrl = resp.PageDetails.NextPageUrl,
              !.hasMore     = hasMore(resp),
              !.currentPage = p.currentPage + 1],
     err |-> FALSE,
     sent |-> <<Issued(req, TRUE)>>]

\* loadNextPage giving up the cursor when the fetch fails
sendRequest_ForgetOnFailure(p, req, ok) ==
    IF req = NoRequest THEN [p |-> p, err |-> FALSE, sent |-> <<>>]
    ELSE IF ~ok THEN [p |-> [p EXCEPT !.nextPageUrl = EmptyUrl, !.hasMore = FALSE],
                      err |-> TRUE, sent |-> <<Issued(req, FALSE)>>]
    ELSE storePage(p, req, Unmarshal(ZeroResponse, Serve(req)))

\* loadNextPage once its request req is built
sendRequest(p, req, ok) ==
    IF req = NoRequest THEN [p |-> p, err |-> FALSE, sent |-> <<>>]
    ELSE IF ~ok THEN [p |-> p, err |-> TRUE, sent |-> <<Issued(req, FALSE)>>]
    ELSE storePage(p, req, Unmarshal(ZeroResponse, Serve(req)))

\* loadNextPage with the transport's outcome ok; p is the iterator after the
\* call, err whether it returned an error, sent the request it issued
loadNextPage(p, ok) == sendRequest(p, loadRequest(p), ok)

Item(p) ==
    IF p.currentIndex < 0 \/ p.currentIndex >= Len(p.items) THEN NilValue
    ELSE p.items[p.currentIndex + 1]

\* PaginationIterator.Error
Error(p) == NilValue

TotalCount(p) == p.totalCount

CurrentPage(p) == p.currentPage

\* filter strings the callers of the pagination helpers pass
Filters == {<<>>, <<"S","t","a","t","u","s","!","=","5">>}

\* page sizes the callers pass
PageSizes == {1, 2}

\* pageSize := 100 in FetchAllPages and FetchAllPagesWithCallback
DefaultPageSize == 100

\* errors a callback may return
CallbackErrors == {"callback error A", "callback error B"}

NoResult == [returned |-> FALSE]

NoCall == [filter |-> <<>>, pageSize |-> 0, page |-> 0]

\* the arguments of a call: the filter string, the page size and, for
\* FetchPage, options.Page
Call(filter, pageSize, page) == [filter |-> filter, pageSize |-> pageSize, page |-> page]

Returned(err, items, page) ==
    [returned |-> TRUE, err |-> err, items |-> items, page |-> page]

\* Next with the hasMore test dropped from its condition
reachedEnd_IgnoringHasMore(p) == p.currentIndex >= Len(p.items)

\* Next: the end of the buffered page is reached and there are more pages
reachedEndWithMore(p) == p.currentIndex >= Len(p.items) /\ p.hasMore

NewPaginationIterator ==
    /\ op = "idle"
    /\ \E filter \in Filters, pageSize \in PageSizes, ok \in BOOLEAN :
         \E ld \in {loadNextPage([exists |-> TRUE, filter |-> filter,
                                  currentPage |-> 1, pageSize |-> pageSize,
                                  totalCount |-> 0, hasMore |-> FALSE,
                                  nextPageUrl |-> EmptyUrl, items |-> <<>>,
                                  currentIndex |-> -1], ok)} :
            /\ requests' = requests \o ld.sent
            /\ it' = IF ld.err THEN NoIterator ELSE ld.p
            /\ call' = Call(filter, pageSize, 0)
            /\ result' = IF ld.err THEN Returned("query failed", <<>>, ZeroResponse)
                         ELSE Returned("", <<>>, ZeroResponse)
    /\ op' = "iterator"
    /\ UNCHANGED <<pages, pc, nextCalls, lastNext, yielded, response, nextPageUrl,
                   allItems, currentPage, cbLog, input, parsed, client, webhook>>

\* Next standing on the second item of a freshly loaded page
nextAfterLoad_SkipFirst(ld) ==
    IF ld.err THEN [p |-> ld.p, ret |-> FALSE]
    ELSE [p |-> [ld.p EXCEPT !.currentIndex = 1],
          ret |-> 1 < Len(ld.p.items)]

\* Next after p.currentIndex++ when the end of the page is reached with more
\* pages: ld is what loadNextPage did
nextAfterLoad(ld) ==
    IF ld.err THEN [p |-> ld.p, ret |-> FALSE]
    ELSE [p |-> [ld.p EXCEPT !.currentIndex = 0],
          ret |-> 0 < Len(ld.p.items)]

\* Next after p.currentIndex++ when no page is loaded
nextWithinPage(p) == [p |-> p, ret |-> p.currentIndex < Len(p.items)]

PaginationIterator_Next ==
    /\ op = "iterator"
    /\ it.exists
    /\ nextCalls < MaxNextCalls
    /\ \E p1 \in {[it EXCEPT !.currentIndex = it.currentIndex + 1]}, ok \in BOOLEAN :
         IF reachedEndWithMore(p1)
         THEN \E ld \in {loadNextPage(p1, ok)} :
                \E n \in {nextAfterLoad(ld)} :
                   /\ it' = n.p
                   /\ requests' = requests \o ld.sent
                   /\ lastNext' = [called |-> TRUE, ret |-> n.ret,
                                   fetch |-> IF ld.sent = <<>> THEN "none"
                                             ELSE IF ld.err THEN "failed" ELSE "ok"]
                   /\ yielded' = IF n.ret THEN Append(yielded, Item(n.p)) ELSE yielded
         ELSE \E n \in {nextWithinPage(p1)} :
                /\ ok
                /\ it' = n.p
                /\ requests' = requests
                /\ lastNext' = [called |-> TRUE, ret |-> n.ret, fetch |-> "none"]
                /\ yielded' = IF n.ret THEN Append(yielded, Item(n.p)) ELSE yielded
    /\ nextCalls' = nextCalls + 1
    /\ UNCHANGED <<pages, op, pc, response, nextPageUrl, allItems, currentPage,
                   cbLog, call, result, input, parsed, client, webhook>>

(***************************************************************************)
(* FetchAllPages                                                           *)
(***************************************************************************)
\* the condition of the loop over the following pages, in FetchAllPages and
\* in FetchAllPagesWithCallback
morePages(url, resp) == url # EmptyUrl /\ Len(resp.Items) > 0

FetchAllPages_First ==
    /\ op = "idle"
    /\ \E filter \in Filters, ok \in BOOLEAN :
         \E req \in {WithMaxRecords(NewEntityQueryParams(QueryFilterOf(filter)),
                                    DefaultPageSize)} :
           \E resp \in {Unmarshal(ZeroResponse, Serve(req))} :
            /\ requests' = Append(requests, Issued(req, ok))
            /\ call' = Call(filter, DefaultPageSize, 0)
            /\ IF ok
               THEN /\ response' = resp
                    /\ allItems' = resp.Items
                    /\ nextPageUrl' = resp.PageDetails.NextPageUrl
                    /\ pc' = "loop"
                    /\ UNCHANGED result
               ELSE /\ result' = Returned("query failed", <<>>, ZeroResponse)
                    /\ pc' = "done"
                    /\ UNCHANGED <<response, allItems, nextPageUrl>>
    /\ op' = "FetchAllPages"
    /\ UNCHANGED <<pages, it, nextCalls, lastNext, yielded, currentPage, cbLog,
                   input, parsed, client, webhook>>

\* the loop of FetchAllPages handing back the items gathered so far when a
\* fetch fails
FetchAllPages_Loop_KeepItems ==
    /\ op = "FetchAllPages"
    /\ pc = "loop"
    /\ morePages(nextPageUrl, response)
    /\ Len(requests) < MaxRequests
    /\ \E ok \in BOOLEAN :
         \E resp \in {Unmarshal(response, Serve(UrlRequest(nextPageUrl)))} :
            /\ requests' = Append(requests, Issued(UrlRequest(nextPageUrl), ok))
            /\ IF ok
               THEN /\ response' = resp
                    /\ allItems' = allItems \o resp.Items
                    /\ nextPageUrl' = resp.PageDetails.NextPageUrl
                    /\ UNCHANGED <<pc, result>>
               ELSE /\ result' = Returned("query failed", allItems, ZeroResponse)
                    /\ pc' = "done"
                    /\ UNCHANGED <<response, allItems, nextPageUrl>>
    /\ UNCHANGED <<pages, op, it, nextCalls, lastNext, yielded, currentPage, cbLog,
                   call, input, parsed, client, webhook>>

FetchAllPages_Loop ==
    /\ op = "FetchAllPages"
    /\ pc = "loop"
    /\ morePages(nextPageUrl, response)
    /\ Len(requests) < MaxRequests
    /\ \E ok \in BOOLEAN :
         \E resp \in {Unmarshal(response, Serve(UrlRequest(nextPageUrl)))} :
            /\ requests' = Append(requests, Issued(UrlRequest(nextPageUrl), ok))
            /\ IF ok
               THEN /\ response' = resp
                    /\ allItems' = allItems \o resp.Items
                    /\ nextPageUrl' = resp.PageDetails.NextPageUrl
                    /\ UNCHANGED <<pc, result>>
               ELSE /\ result' = Returned("query failed", <<>>, ZeroResponse)
                    /\ pc' = "done"
                    /\ UNCHANGED <<response, allItems, nextPageUrl>>
    /\ UNCHANGED <<pages, op, it, nextCalls, lastNext, yielded, currentPage, cbLog,
                   call, input, parsed, client, webhook>>

FetchAllPages_Return ==
    /\ op = "FetchAllPages"
    /\ pc = "loop"
    /\ ~morePages(nextPageUrl, response)
    /\ result' = Returned("", allItems, ZeroResponse)
    /\ pc' = "done"
    /\ UNCHANGED <<pages, op, requests, it, nextCalls, lastNext, yielded, response,
                   nextPageUrl, allItems, currentPage, cbLog, call, input, parsed, client, webhook>>

(***************************************************************************)
(* FetchAllPagesWithCallback                                               *)
(***************************************************************************)
\* the callback's error going unnoticed
callbackFailed_Never(cbErr) == FALSE

\* if err != nil after the callback
callbackFailed(cbErr) == cbErr # ""

\* the server's page number passed on to the callback
numberPage_AsReported(resp, page) == resp

\* response.PageDetails.PageNumber = currentPage
numberPage(resp, page) == [resp EXCEPT !.PageDetails.PageNumber = page]

\* FetchAllPagesWithCallback after a successful fetch: the callback is
\* invoked on the numbered page and returns cbErr ("" for nil)
invokeCallback(numbered, page, cbErr) ==
    /\ response' = numbered
    /\ cbLog' = Append(cbLog, [items |-> numbered.Items,
                               pageDetails |-> numbered.PageDetails,
                               ret |-> cbErr])
    /\ IF callbackFailed(cbErr)
       THEN /\ result' = Returned(cbErr, <<>>, ZeroResponse)
            /\ pc' = "done"
            /\ currentPage' = page
            /\ UNCHANGED nextPageUrl
       ELSE /\ nextPageUrl' = numbered.PageDetails.NextPageUrl
            /\ currentPage' = page + 1
            /\ pc' = "loop"
            /\ UNCHANGED result

\* one fetch of FetchAllPagesWithCallback followed by the callback on the
\* fetched page; into is the response variable decoded into, page the local
\* currentPage
CallbackStep(req, into, page, ok, cbErr) ==
    /\ requests' = Append(requests, Issued(req, ok))
    /\ IF ~ok
       THEN /\ result' = Returned("query failed", <<>>, ZeroResponse)
            /\ pc' = "done"
            /\ currentPage' = page
            /\ UNCHANGED <<response, cbLog, nextPageUrl>>
       ELSE invokeCallback(numberPage(Unmarshal(into, Serve(req)), page), page, cbErr)

FetchAllPagesWithCallback_First ==
    /\ op = "idle"
    /\ \E filter \in Filters, ok \in BOOLEAN, cbErr \in CallbackErrors \cup {""} :
         /\ ~ok => cbErr = ""
         /\ call' = Call(filter, DefaultPageSize, 0)
         /\ CallbackStep(WithMaxRecords(NewEntityQueryParams(QueryFilterOf(filter)),
                                        DefaultPageSize),
                         ZeroResponse, 1, ok, cbErr)
    /\ op' = "FetchAllPagesWithCallback"
    /\ UNCHANGED <<pages, it, nextCalls, lastNext, yielded, allItems,
                   input, parsed, client, webhook>>

FetchAllPagesWithCallback_Loop ==
    /\ op = "FetchAllPagesWithCallback"
    /\ pc = "loop"
    /\ morePages(nextPageUrl, response)
    /\ Len(requests) < MaxRequests
    /\ \E ok \in BOOLEAN, cbErr \in CallbackErrors \cup {""} :
         /\ ~ok => cbErr = ""
         /\ CallbackStep(UrlRequest(nextPageUrl), response, currentPage, ok, cbErr)
    /\ UNCHANGED <<pages, op, it, nextCalls, lastNext, yielded, allItems, call,
                   input, parsed, client, webhook>>

FetchAllPagesWithCallback_Return ==
    /\ op = "FetchAllPagesWithCallback"
    /\ pc = "loop"
    /\ ~morePages(nextPageUrl, response)
    /\ result' = Returned("", <<>>, ZeroResponse)
    /\ pc' = "done"
    /\ UNCHANGED <<pages, op, requests, it, nextCalls, lastNext, yielded, response,
                   nextPageUrl, allItems, currentPage, cbLog, call, input, parsed, client, webhook>>

(***************************************************************************)
(* FetchPage                                                               *)
(***************************************************************************)
PaginationOptions == [Page : 1..MaxTargetPage, PageSize : PageSizes]

FetchPage_First ==
    /\ op = "idle"
    /\ \E filter \in Filters, opts \in PaginationOptions, ok \in BOOLEAN :
         \E req \in {WithPage(WithMaxRecords(NewEntityQueryParams(QueryFilterOf(filter)),
                                             opts.PageSize),
                              opts.Page)} :
           \E resp \in {Unmarshal(ZeroResponse, Serve(req))} :
            /\ call' = Call(filter, opts.PageSize, opts.Page)
            /\ requests' = Append(requests, Issued(req, ok))
            /\ IF ok
               THEN /\ response' = [resp EXCEPT !.PageDetails.PageNumber = opts.Page]
                    /\ nextPageUrl' = resp.PageDetails.NextPageUrl
                    /\ currentPage' = 1
                    /\ pc' = "loop"
                    /\ UNCHANGED result
               ELSE /\ result' = Returned("query failed", <<>>, ZeroResponse)
                    /\ pc' = "done"
                    /\ UNCHANGED <<response, nextPageUrl, currentPage>>
    /\ op' = "FetchPage"
    /\ UNCHANGED <<pages, it, nextCalls, lastNext, yielded, allItems, cbLog,
                   input, parsed, client, webhook>>

FetchPage_Loop ==
    /\ op = "FetchPage"
    /\ pc = "loop"
    /\ currentPage < call.page /\ nextPageUrl # EmptyUrl
    /\ \E ok \in BOOLEAN :
         \E resp \in {Unmarshal(response, Serve(UrlRequest(nextPageUrl)))} :
            /\ requests' = Append(requests, Issued(UrlRequest(nextPageUrl), ok))
            /\ IF ok
               THEN /\ response' = resp
                    /\ currentPage' = currentPage + 1
                    /\ nextPageUrl' = resp.PageDetails.NextPageUrl
                    /\ pc' = IF currentPage + 1 >= call.page
                                \/ resp.PageDetails.NextPageUrl = EmptyUrl
                             THEN "break" ELSE "loop"
                    /\ UNCHANGED result
               ELSE /\ result' = Returned("query failed", <<>>, ZeroResponse)
                    /\ pc' = "done"
                    /\ UNCHANGED <<response, nextPageUrl, currentPage>>
    /\ UNCHANGED <<pages, op, it, nextCalls, lastNext, yielded, allItems, cbLog,
                   call, input, parsed, client, webhook>>

FetchPage_Return ==
    /\ op = "FetchPage"
    /\ \/ pc = "break"
       \/ pc = "loop" /\ ~(currentPage < call.page /\ nextPageUrl # EmptyUrl)
    /\ response' = [response EXCEPT !.PageDetails.PageNumber = currentPage]
    /\ result' = Returned("", <<>>, response')
    /\ pc' = "done"
    /\ UNCHANGED <<pages, op, requests, it, nextCalls, lastNext, yielded,
                   nextPageUrl, allItems, currentPage, cbLog, call, input, parsed, client, webhook>>

(***************************************************************************)
(* GetPreviousPage of the two entity services                              *)
(***************************************************************************)
\* Pagination(ctx, url, &result): a GET of url as given, the empty string
\* included, which resolves to the base URL and is answered by no page of
\* the chain
Pagination(url, ok) ==
    [sent  |-> <<Issued(UrlRequest(url), ok)>>,
     err   |-> IF ok THEN "" ELSE "query failed",
     items |-> IF ok /\ url # EmptyUrl THEN pages[url].items ELSE <<>>]

\* the page details GetPreviousPage is called with and the service called
PrevCall(service, url) ==
    [filter |-> <<>>, pageSize |-> 0, page |-> 0,
     service |-> service, PrevPageUrl |-> url]

\* BaseEntityService.GetPreviousPage
BaseEntityService_GetPreviousPage ==
    /\ op = "idle"
    /\ \E url \in {EmptyUrl} \cup 1..Len(pages), ok \in BOOLEAN :
         \E pg \in {Pagination(url, ok)} :
            /\ requests' = requests \o pg.sent
            /\ result' = Returned(pg.err, pg.items, ZeroResponse)
            /\ call' = PrevCall("BaseEntityService", url)
    /\ op' = "GetPreviousPage"
    /\ UNCHANGED <<pages, pc, it, nextCalls, lastNext, yielded, response,
                   nextPageUrl, allItems, currentPage, cbLog, input, parsed, client, webhook>>

\* EntityService.GetPreviousPage of the internal client
EntityService_GetPreviousPage ==
    /\ op = "idle"
    /\ \E url \in {EmptyUrl} \cup 1..Len(pages), ok \in BOOLEAN :
         /\ call' = PrevCall("EntityService", url)
         /\ IF url = EmptyUrl
            THEN /\ requests' = requests
                 /\ result' = Returned("", <<>>, ZeroResponse)
            ELSE \E pg \in {Pagination(url, ok)} :
                    /\ requests' = requests \o pg.sent
                    /\ result' = Returned(pg.err, pg.items, ZeroResponse)
    /\ op' = "GetPreviousPage"
    /\ UNCHANGED <<pages, pc, it, nextCalls, lastNext, yielded, response,
                   nextPageUrl, allItems, currentPage, cbLog, input, parsed, client, webhook>>

(***************************************************************************)
(* Count of the entity services                                            *)
(***************************************************************************)
\* entity names of the services: Companies, Tickets and Resources have a
\* case of their own in Count, every other entity takes the default
EntityNames == {"Companies", "Tickets", "Resources", "Contacts"}

\* "Status=1"
FilterStatusOpen ==
    <<"S","t","a","t","u","s","=","1">>

\* filter strings the callers of Count pass
CountFilters == Filters \cup {FilterStatusOpen}

\* the switch on s.EntityName at the head of Count
countFieldName(entityName, filter) ==
    CASE entityName = "Companies" -> <<"I","s","A","c","t","i","v","e">>
      [] entityName = "Tickets"   -> <<"S","t","a","t","u","s">>
      [] entityName = "Resources" -> <<"I","s","A","c","t","i","v","e">>
      [] OTHER                    -> filter

\* the request of Count: <entity>/query/count?search=<params>
CountRequest(entityName, params) ==
    [kind |-> "count", entity |-> entityName, filter |-> params.filter,
     maxRecords |-> params.maxRecords, page |-> params.page]

\* the arguments of a call of Count
CountCall(entityName, filter) ==
    [filter |-> filter, pageSize |-> 0, page |-> 0, entity |-> entityName]

\* BaseEntityService.Count; the server answers with the total it reports
BaseEntityService_Count ==
    /\ op = "idle"
    /\ \E entityName \in EntityNames, filter \in CountFilters, ok \in BOOLEAN :
         \E filterObj \in {NewQueryFilter(countFieldName(entityName, filter),
                                          OperatorEquals, BoolValue(TRUE))} :
            /\ requests' = Append(requests,
                   Issued(CountRequest(entityName, NewEntityQueryParams(filterObj)), ok))
            /\ call' = CountCall(entityName, filter)
            /\ result' = IF ok THEN Returned("", <<>>, [count |-> pages[1].count])
                         ELSE Returned("request failed", <<>>, [count |-> 0])
    /\ op' = "Count"
    /\ UNCHANGED <<pages, pc, it, nextCalls, lastNext, yielded, response,
                   nextPageUrl, allItems, currentPage, cbLog, input, parsed, client, webhook>>

(***************************************************************************)
(* The client: zone information and base URL                               *)
(***************************************************************************)
\* c.baseURL == nil
NilURL == [set |-> FALSE]

\* c.zoneInfo == nil
NilZone == [known |-> FALSE]

\* the client as NewClient returns it: no zone information, no base URL
NewClient == [zoneInfo |-> NilZone, baseURL |-> NilURL, last |-> [fn |-> "none"]]

\* zone URLs a zone lookup may answer with; url.Parse rejects the last one
\* (invalid escape in the host)
UnparsableURLs == {"https://web%zz.autotask.net/ATServicesRest/"}

ZoneURLs == {"https://webservices1.autotask.net/ATServicesRest/",
             "https://webservices2.autotask.net/ATServicesRest/"} \cup UnparsableURLs

\* what a zone lookup over HTTP may come to: the transport fails, the status
\* is not 200, the body is not a ZoneInfo document, or a ZoneInfo is decoded
Lookups ==
    {[ok |-> FALSE, why |-> w] : w \in {"transport", "status", "decode"}}
        \cup {[ok |-> TRUE, URL |-> u] : u \in ZoneURLs}

\* url.Parse of the base URL built from the zone URL (the zone URL followed
\* by "v1.0/"): nil and an error when the text does not parse
urlParse(zoneURL) ==
    IF zoneURL \in UnparsableURLs THEN [url |-> NilURL, err |-> TRUE]
    ELSE [url |-> [set |-> TRUE, zone |-> zoneURL, version |-> "v1.0/"], err |-> FALSE]

\* GetZoneInfo; lookup is what the HTTP lookup comes to if one is made. Once
\* a ZoneInfo is decoded the zone is cached (c.zoneInfo = &zoneInfo), then the
\* base URL is parsed and assigned
GetZoneInfo(c, lookup) ==
    IF c.zoneInfo # NilZone THEN [c |-> c, err |-> FALSE]
    ELSE IF ~lookup.ok THEN [c |-> c, err |-> TRUE]
    ELSE [c   |-> [c EXCEPT !.zoneInfo = [known |-> TRUE, URL |-> lookup.URL],
                            !.baseURL  = urlParse(lookup.URL).url],
          err |-> urlParse(lookup.URL).err]

\* NewRequest up to c.baseURL.ResolveReference(rel): "error" for a returned
\* error, "panic" for the nil dereference of a missing base URL
NewRequest(c, lookup, relOk) ==
    IF c.baseURL = NilURL /\ GetZoneInfo(c, lookup).err
    THEN [c |-> GetZoneInfo(c, lookup).c, outcome |-> "error"]
    ELSE \* g is the client after the optional lookup
         LET g == IF c.baseURL = NilURL THEN GetZoneInfo(c, lookup).c ELSE c
         IN  [c |-> g,
              outcome |-> IF ~relOk THEN "error"
                          ELSE IF g.baseURL = NilURL THEN "panic"
                          ELSE "ok"]

Client_GetZoneInfo ==
    /\ op = "client"
    /\ \E lookup \in Lookups :
         \E g \in {GetZoneInfo(client, lookup)} :
            client' = [g.c EXCEPT !.last = [fn |-> "GetZoneInfo", err |-> g.err]]
    /\ UNCHANGED <<pagVars, input, parsed, webhook>>

Client_NewRequest ==
    /\ op = "client"
    /\ \E lookup \in Lookups, relOk \in BOOLEAN :
         \E n \in {NewRequest(client, lookup, relOk)} :
            client' = [n.c EXCEPT !.last = [fn |-> "NewRequest", outcome |-> n.outcome]]
    /\ UNCHANGED <<pagVars, input, parsed, webhook>>

(***************************************************************************)
(* The webhook service                                                     *)
(***************************************************************************)
\* s.secret == "": no signature is asked for
NoSecret == ""

Secrets == {NoSecret, "test-secret", "new-secret"}

\* event types handlers are registered for
EventTypes == {"ticket.created", "ticket.updated"}

\* the handlers of the callers, by what they return: nil or an error
WebhookHandlers == {[name |-> "handlerOk", err |-> FALSE],
                    [name |-> "handlerErr", err |-> TRUE]}

\* request bodies: a WebhookEvent document of some event type, or a body
\* that is not JSON
Bodies == {[kind |-> "event", EventType |-> e] : e \in EventTypes}
              \cup {[kind |-> "invalid json"]}

\* r.Header.Get("X-Autotask-Signature") of a request without the header
NoSignature == [missing |-> TRUE]

\* hex.EncodeToString of the HMAC-SHA256 of body under key, taken to be free
\* of collisions: equal texts come from equal keys and bodies only
Sign(key, body) == [missing |-> FALSE, key |-> key, msg |-> body]

\* the requests received: the signature header is missing, or is the
\* signature somebody computed with some secret over some body
WebhookRequests ==
    {[Method |-> m, Signature |-> sig, Body |-> b] :
        m \in {"POST", "GET"}, b \in Bodies,
        sig \in {NoSignature} \cup {Sign(k, x) : k \in Secrets \ {NoSecret}, x \in Bodies}}

\* &webhookService{}: no secret, nil handlers map
NewWebhookService == [secret |-> NoSecret, handlers |-> <<>>, last |-> [handled |-> FALSE]]

\* s.handlers[eventType]: nil for a key the map does not hold
handlersOf(handlers, eventType) ==
    IF eventType \in DOMAIN handlers THEN handlers[eventType] ELSE <<>>

\* number of handlers registered over all event types
RECURSIVE Registrations(_, _)
Registrations(handlers, types) ==
    IF types = {} THEN 0
    ELSE LET e == CHOOSE x \in types : TRUE
         IN  Len(handlersOf(handlers, e)) + Registrations(handlers, types \ {e})

\* s.handlers[eventType] = append(s.handlers[eventType], handler)
registered(handlers, eventType, handler) ==
    [e \in DOMAIN handlers \cup {eventType} |->
        IF e = eventType THEN Append(handlersOf(handlers, e), handler)
        ELSE handlers[e]]

\* verifySignature accepting a signature made with any key
verifySignature_AnyKey(secret, signature, body) ==
    ~signature.missing /\ signature.msg = body

\* verifySignature: hmac.Equal of the header and the expected signature
verifySignature(secret, signature, body) == signature = Sign(secret, body)

\* the loop over the handlers leaving at the first error
callHandlers_StopAtError(handlers, event) ==
    [i \in {j \in 1..Len(handlers) : \A k \in 1..(j - 1) : ~handlers[k].err} |->
        [handler |-> handlers[i].name, event |-> event, err |-> handlers[i].err]]

\* for _, handler := range handlers: every handler is called with the event,
\* an error is logged and the loop goes on
callHandlers(handlers, event) ==
    [i \in 1..Len(handlers) |->
        [handler |-> handlers[i].name, event |-> event, err |-> handlers[i].err]]

\* HandleWebhook: the status written and the handler calls made
HandleWebhook(s, r) ==
    IF r.Method # "POST" THEN [status |-> 405, calls |-> <<>>]
    ELSE IF s.secret # NoSecret /\ r.Signature = NoSignature
    THEN [status |-> 401, calls |-> <<>>]
    ELSE IF s.secret # NoSecret /\ ~verifySignature(s.secret, r.Signature, r.Body)
    THEN [status |-> 401, calls |-> <<>>]
    ELSE IF r.Body.kind # "event" THEN [status |-> 400, calls |-> <<>>]
    ELSE [status |-> 200,
          calls  |-> callHandlers(handlersOf(s.handlers, r.Body.EventType), r.Body)]

Webhook_RegisterHandler ==
    /\ op = "webhook"
    /\ Registrations(webhook.handlers, EventTypes) < MaxRegistrations
    /\ \E eventType \in EventTypes, handler \in WebhookHandlers :
         webhook' = [webhook EXCEPT
                        !.handlers = registered(webhook.handlers, eventType, handler),
                        !.last = [handled |-> FALSE]]
    /\ UNCHANGED <<pagVars, input, parsed, client>>

Webhook_SetWebhookSecret ==
    /\ op = "webhook"
    /\ \E secret \in Secrets :
         webhook' = [webhook EXCEPT !.secret = secret, !.last = [handled |-> FALSE]]
    /\ UNCHANGED <<pagVars, input, parsed, client>>

Webhook_HandleWebhook ==
    /\ op = "webhook"
    /\ \E r \in WebhookRequests :
         \E a \in {HandleWebhook(webhook, r)} :
            webhook' = [webhook EXCEPT
                           !.last = [handled |-> TRUE, request |-> r,
                                     status |-> a.status, calls |-> a.calls]]
    /\ UNCHANGED <<pagVars, input, parsed, client>>

(***************************************************************************)
(* The pagination specification: one server, one operation of the caller   *)
(***************************************************************************)
NotParsed == [done |-> FALSE]

Init ==
    /\ pages \in Servers
    /\ op = "idle"
    /\ pc = "start"
    /\ requests = <<>>
    /\ it = NoIterator
    /\ nextCalls = 0
    /\ lastNext = NotCalled
    /\ yielded = <<>>
    /\ response = ZeroResponse
    /\ nextPageUrl = EmptyUrl
    /\ allItems = <<>>
    /\ currentPage = 0
    /\ cbLog = <<>>
    /\ call = NoCall
    /\ result = NoResult
    /\ input = <<>>
    /\ parsed = NotParsed
    /\ client = NewClient
    /\ webhook = NewWebhookService

Next ==
    \/ NewPaginationIterator
    \/ PaginationIterator_Next
    \/ FetchAllPages_First
    \/ FetchAllPages_Loop
    \/ FetchAllPages_Return
    \/ FetchAllPagesWithCallback_First
    \/ FetchAllPagesWithCallback_Loop
    \/ FetchAllPagesWithCallback_Return
    \/ FetchPage_First
    \/ FetchPage_Loop
    \/ FetchPage_Return
    \/ BaseEntityService_GetPreviousPage
    \/ EntityService_GetPreviousPage
    \/ BaseEntityService_Count

Spec == Init /\ [][Next]_vars

(***************************************************************************)
(* The parser specification: one filter string, parsed once                *)
(***************************************************************************)
\* filter strings, written out character by character
\* "a=1"
CondA ==
    <<"a","=","1">>

\* "Name='T'"
CondName ==
    <<"N","a","m","e","=","'","T","'">>

\* "active=true"
CondActive ==
    <<"a","c","t","i","v","e","=","t","r","u","e">>

\* "x"
CondNoOperator ==
    <<"x">>

\* "a=b=c"
ExampleRepeatedToken ==
    <<"a","=","b","=","c">>

\* "name='Test' AND active=true"
ExampleAnd ==
    <<"n","a","m","e","=","'","T","e","s","t","'"," ","A","N","D"," ","a","c","t","i","v","e","=","t","r","u","e">>

\* "(name='Test' OR name='Test2') AND active=true"
ExampleNestedOr ==
    <<"(","n","a","m","e","=","'","T","e","s","t","'"," ","O","R"," ","n","a","m","e","=","'","T","e","s","t","2","'",")"," ","A","N","D"," ","a","c","t","i","v","e","=","t","r","u","e">>

\* "(a=1 AND b=2) OR c=3"
ExampleNestedAnd ==
    <<"(","a","=","1"," ","A","N","D"," ","b","=","2",")"," ","O","R"," ","c","=","3">>

\* "invalid filter"
ExampleInvalid ==
    <<"i","n","v","a","l","i","d"," ","f","i","l","t","e","r">>

\* "a=1 or x and Name='T'"
ExampleMixedOrFirst ==
    <<"a","=","1"," ","o","r"," ","x"," ","a","n","d"," ","N","a","m","e","=","'","T","'">>

\* "() AND a=1"
ExampleEmptyParens ==
    <<"(",")"," ","A","N","D"," ","a","=","1">>

\* "( AND )"
ExampleLoneParens ==
    <<"("," ","A","N","D"," ",")">>

\* "Status=1 AND AssignedTo=123 or AssignedTo=456"
ExampleMixed ==
    <<"S","t","a","t","u","s","=","1"," ","A","N","D"," ","A","s","s","i","g","n","e","d","T","o","=","1","2","3"," ","o","r"," ","A","s","s","i","g","n","e","d","T","o","=","4","5","6">>

\* "Name contains 'Test'"
ExampleContains ==
    <<"N","a","m","e"," ","c","o","n","t","a","i","n","s"," ","'","T","e","s","t","'">>

\* the pieces filter strings are written with
ParseTokens ==
    { <<"a">>, <<"S","t","a","t","u","s">>,
      <<"=">>, <<"!","=">>, <<">">>, <<"<">>,
      <<" ","c","o","n","t","a","i","n","s"," ">>,
      <<"5">>, <<"-","3">>, <<"1",".","5">>, <<"t","r","u","e">>,
      <<"'","T","'">>, <<" ">> }

RECURSIVE Flatten(_)
Flatten(ts) == IF ts = <<>> THEN <<>> ELSE Head(ts) \o Flatten(Tail(ts))

TokenInputs ==
    {Flatten(ts) : ts \in UNION {[1..n -> ParseTokens] : n \in 0..MaxTokens}}

\* simple conditions a compound filter string is written with; the last one
\* holds no operator
Conditions ==
    { CondA, CondName, CondActive, CondNoOperator }

\* the conditions written inside parentheses
NestedConditions == { CondA, CondName }

\* the connectives as a caller may write them
Connectives ==
    { <<" ","A","N","D"," ">>, <<" ","a","n","d"," ">>,
      <<" ","O","R"," ">>, <<" ","o","r"," ">> }

NestedConnectives == { <<" ","O","R"," ">>, <<" ","a","n","d"," ">> }

\* one top-level segment: a condition, or one pair of parentheses around a
\* condition or around two conditions joined by a connective
Segments ==
    Conditions
    \cup {<<"(">> \o CondA \o <<")">>}
    \cup {<<"(">> \o c \o k \o CondA \o <<")">> :
            c \in NestedConditions, k \in NestedConnectives}

\* n segments joined by connectives, each connective chosen freely
RECURSIVE Compounds(_)
Compounds(n) ==
    IF n = 1 THEN Segments
    ELSE {c \o k \o g : c \in Compounds(n - 1), k \in Connectives, g \in Segments}

CompoundInputs == UNION {Compounds(n) : n \in 1..MaxSegments}

\* filter strings of the package documentation and of its tests
ExampleInputs ==
    { ExampleRepeatedToken, ExampleAnd, ExampleNestedOr, ExampleNestedAnd, ExampleInvalid, ExampleContains,
      ExampleMixed, ExampleMixedOrFirst, ExampleEmptyParens,
      ExampleLoneParens }

Inputs == TokenInputs \cup CompoundInputs \cup ExampleInputs

InitParse ==
    /\ input \in Inputs
    /\ parsed = NotParsed
    /\ op = "parse"
    /\ pages = <<>>
    /\ pc = "start"
    /\ requests = <<>>
    /\ it = NoIterator
    /\ nextCalls = 0
    /\ lastNext = NotCalled
    /\ yielded = <<>>
    /\ response = ZeroResponse
    /\ nextPageUrl = EmptyUrl
    /\ allItems = <<>>
    /\ currentPage = 0
    /\ cbLog = <<>>
    /\ call = NoCall
    /\ result = NoResult
    /\ client = NewClient
    /\ webhook = NewWebhookService

ParseFilterString_Call ==
    /\ op = "parse"
    /\ ~parsed.done
    /\ parsed' = [done |-> TRUE, filter |-> ParseFilterString(input)]
    /\ UNCHANGED <<input, pagVars, client, webhook>>

NextParse == ParseFilterString_Call

SpecParse == InitParse /\ [][NextParse]_vars

(***************************************************************************)
(* The service specification: either the client's zone lookups and         *)
(* requests, or the webhook service's registrations and requests           *)
(***************************************************************************)
InitService ==
    /\ op \in {"client", "webhook"}
    /\ client = NewClient
    /\ webhook = NewWebhookService
    /\ input = <<>>
    /\ parsed = NotParsed
    /\ pages = <<>>
    /\ pc = "start"
    /\ requests = <<>>
    /\ it = NoIterator
    /\ nextCalls = 0
    /\ lastNext = NotCalled
    /\ yielded = <<>>
    /\ response = ZeroResponse
    /\ nextPageUrl = EmptyUrl
    /\ allItems = <<>>
    /\ currentPage = 0
    /\ cbLog = <<>>
    /\ call = NoCall
    /\ result = NoResult

NextService ==
    \/ Client_GetZoneInfo
    \/ Client_NewRequest
    \/ Webhook_RegisterHandler
    \/ Webhook_SetWebhookSecret
    \/ Webhook_HandleWebhook

SpecService == InitService /\ [][NextService]_vars

(***************************************************************************)
(* Properties                                                              *)
(***************************************************************************)
PaginatingOps == {"iterator", "FetchAllPages", "FetchAllPagesWithCallback"}

\* the page as served carries no next-page cursor, written "" or null
HasNoCursor(page) == page.next \in {EmptyUrl, Absent}

\* C1: once a fetched page has an empty next-page cursor, the iterator,
\* FetchAllPages and FetchAllPagesWithCallback issue no further request,
\* whatever total count the server reports: the request that fetched such a
\* page is the last one.
C1_CursorDecides ==
    op \in PaginatingOps =>
        \A i \in 1..Len(requests) :
            (requests[i].ok /\ HasNoCursor(Serve(requests[i].req)))
                => i = Len(requests)

AllPagesNonEmpty == \A k \in 1..Len(pages) : Len(pages[k].items) > 0

\* C2: on a chain of pages linked by cursors (every page non-empty, as in the
\* 10, 10, 5 example) FetchAllPages issues one request per page and returns
\* the items of page 1, page 2, ... up to the last page, each once and in
\* server order.
C2_FetchAllPagesReturnsEveryItemOnce ==
    (op = "FetchAllPages" /\ AllPagesNonEmpty) =>
        /\ Len(requests) <= Len(pages)
        /\ (result.returned /\ result.err = "") =>
               /\ result.items = ItemsUpTo(Len(pages))
               /\ Len(requests) = Len(pages)

\* every buffered item of a page with an empty cursor has been consumed
Exhausted ==
    /\ op = "iterator"
    /\ it.exists
    /\ it.nextPageUrl = EmptyUrl
    /\ it.currentIndex >= Len(it.items) - 1

\* C3: the exhausted state is absorbing: from it every Next() returns false,
\* issues no request and leaves the iterator exhausted.
C3_ExhaustedIsAbsorbing ==
    [][Exhausted =>
        /\ Exhausted'
        /\ requests' = requests
        /\ (nextCalls' # nextCalls => lastNext'.ret = FALSE)]_vars

\* Next() has returned false at least twice in the exhausted state, after
\* pages were fetched by cursor and items were yielded
C3_Witness ==
    /\ Exhausted
    /\ Len(requests) >= 2
    /\ Len(yielded) >= 2
    /\ lastNext.called /\ ~lastNext.ret
    /\ it.currentIndex >= Len(it.items) + 1

\* C4: after Next() returned false, Error() is non-nil exactly when the
\* false came from a failed page fetch, and nil when the iterator is
\* exhausted.
C4_ErrorTellsCauseOfFalse ==
    (op = "iterator" /\ it.exists /\ lastNext.called /\ ~lastNext.ret) =>
        ((Error(it) # NilValue) <=> (lastNext.fetch = "failed"))

\* a step that is one call of Next()
NextCalled == op = "iterator" /\ it.exists /\ nextCalls' = nextCalls + 1

\* the buffered page is fully consumed and the iterator holds a cursor
ConsumedWithCursor ==
    it.currentIndex >= Len(it.items) - 1 /\ it.nextPageUrl # EmptyUrl

\* the step issues exactly one request, to the cursor held before the step,
\* and on success buffers the fetched page with the index at its start
OneFetchOfCursor ==
    /\ Len(requests') = Len(requests) + 1
    /\ requests'[Len(requests')].req = UrlRequest(it.nextPageUrl)
    /\ requests'[Len(requests')].ok =>
           /\ it'.items = pages[it.nextPageUrl].items
           /\ it'.currentIndex = 0

\* C5 as stated: whenever Next() is called while the buffered page is fully
\* consumed and a cursor is held, it performs exactly one fetch of that
\* cursor URL, replaces the buffer and restarts the index.
C5_FetchWheneverCursorHeld ==
    [][(NextCalled /\ ConsumedWithCursor) => OneFetchOfCursor]_vars

\* C5 amended: the same, provided the buffered page is not empty; after an
\* empty page Next() fetches nothing, cursor or not.
C5_FetchWhenPageNonEmpty ==
    [][NextCalled =>
        /\ (ConsumedWithCursor /\ Len(it.items) > 0) => OneFetchOfCursor
        /\ Len(it.items) = 0 => requests' = requests]_vars

\* Next() has just crossed a page boundary: it fetched the cursor of a
\* non-empty page and stands on the first item of the fetched page
C5_Witness ==
    /\ op = "iterator" /\ it.exists
    /\ lastNext.called /\ lastNext.ret /\ lastNext.fetch = "ok"
    /\ Len(requests) >= 2
    /\ requests[Len(requests)].req.kind = "url"
    /\ it.currentIndex = 0
    /\ Len(yielded) >= 2

\* C6: NewPaginationIterator issues exactly one request before it returns,
\* the first-page query of the parsed filter with max-records = page size; a
\* failed fetch gives an error and no iterator, a successful one an iterator
\* at index -1 whose Item() is nil.
C6_ConstructorFetchesFirstPage ==
    op = "iterator" =>
        /\ Len(requests) >= 1
        /\ requests[1].req =
               WithMaxRecords(NewEntityQueryParams(ParseFilterString(call.filter)),
                              call.pageSize)
        /\ nextCalls = 0 =>
               /\ Len(requests) = 1
               /\ result.returned
               /\ IF requests[1].ok
                  THEN /\ result.err = ""
                       /\ it.exists
                       /\ it.currentIndex = -1
                       /\ Item(it) = NilValue
                  ELSE /\ result.err # ""
                       /\ ~it.exists

\* the constructor was called with a filter and its fetch failed
C6_Witness ==
    /\ op = "iterator"
    /\ call.filter # <<>>
    /\ Len(requests) = 1 /\ ~requests[1].ok
    /\ result.returned /\ result.err # ""
    /\ ~it.exists

\* C7: an error returned by the callback ends FetchAllPagesWithCallback:
\* that invocation is the last one, no request follows it and the helper
\* returns the callback's error unchanged.
C7_CallbackErrorStopsTraversal ==
    op = "FetchAllPagesWithCallback" =>
        \A k \in 1..Len(cbLog) :
            cbLog[k].ret # "" =>
                /\ k = Len(cbLog)
                /\ Len(requests) = k
                /\ result.returned
                /\ result.err = cbLog[k].ret

\* the callback failed on a page after the first
C7_Witness ==
    /\ op = "FetchAllPagesWithCallback"
    /\ Len(cbLog) >= 2
    /\ cbLog[Len(cbLog)].ret = "callback error B"
    /\ result.returned

Min(a, b) == IF a <= b THEN a ELSE b

\* C8: FetchPage for page N returns after exactly min(N, P) requests, P the
\* number of pages of the chain, and the page it returns carries PageNumber
\* equal to the number of requests.
C8_FetchPageRequestCount ==
    (op = "FetchPage" /\ result.returned /\ result.err = "") =>
        /\ Len(requests) = Min(call.page, Len(pages))
        /\ result.page.PageDetails.PageNumber = Len(requests)

\* C9: the k-th invocation of the callback receives PageNumber = k, whatever
\* page number the server reported.
C9_CallbackPageNumbers ==
    op = "FetchAllPagesWithCallback" =>
        \A k \in 1..Len(cbLog) : cbLog[k].pageDetails.PageNumber = k

\* three pages went to the callback of a server that reports page number 5
\* for every page
C9_Witness ==
    /\ op = "FetchAllPagesWithCallback"
    /\ Len(cbLog) >= 3
    /\ \A k \in 1..Len(pages) : pages[k].pageNumber = 5

\* the whole text is a decimal number: sign, digits, at most one point
IsNumberText(s) ==
    LET d == SignLen(s) + Len(IntDigits(s)) + 1
        point == IF d <= Len(s) /\ s[d] = "." THEN 1 ELSE 0
    IN /\ LexFloat(s)
       /\ SignLen(s) + Len(IntDigits(s)) + point + Len(FracDigits(s)) = Len(s)

ComparisonOperators ==
    {OperatorEquals, OperatorNotEquals, OperatorGreaterThan, OperatorLessThan}

\* C10: a simple condition whose value text is numeric parses to a number,
\* never to a string: no string value of a parsed comparison is numeric text,
\* and "Status!=5" gives (Status, not-equals, integer 5).
C10_NumericValueIsNumber ==
    parsed.done =>
        /\ (parsed.filter.kind = "QueryFilter"
            /\ parsed.filter.Operator \in ComparisonOperators
            /\ parsed.filter.Value.t = "string")
               => ~IsNumberText(parsed.filter.Value.s)
        /\ input = <<"S","t","a","t","u","s","!","=","5">> =>
               parsed.filter = NewQueryFilter(<<"S","t","a","t","u","s">>,
                                              OperatorNotEquals, IntValue(5))

\* strings.Split of s at the places where sep occurs in ToUpper(s): the
\* segments as the caller wrote them
RECURSIVE SplitFold(_, _)
SplitFold(s, sep) ==
    LET i == Index(ToUpper(s), sep)
    IN IF i = 0 THEN <<s>>
       ELSE <<SubSeq(s, 1, i - 1)>> \o SplitFold(SubSeq(s, i + Len(sep), Len(s)), sep)

NoParens(s) == ~Contains(s, <<"(">>) /\ ~Contains(s, <<")">>)

JoinedByAndOnly(s) == Contains(ToUpper(s), TokAnd) /\ ~Contains(ToUpper(s), TokOr)

JoinedByOrOnly(s) == Contains(ToUpper(s), TokOr) /\ ~Contains(ToUpper(s), TokAnd)

\* C11: for a filter string without parentheses whose conditions are all
\* joined by AND (or all by OR), the i-th item of the group is the i-th
\* segment, as the caller wrote it, parsed as a simple condition; and
\* "name='Test' AND active=true" gives the AND-group of (name, eq, 'Test')
\* and (active, eq, true).
C11_GroupItemsAreSegmentsParsed ==
    (parsed.done /\ NoParens(input)) =>
        /\ JoinedByAndOnly(input) =>
               parsed.filter = NewAndFilterGroup(SimpleFilters(SplitFold(input, TokAnd)))
        /\ JoinedByOrOnly(input) =>
               parsed.filter = NewOrFilterGroup(SimpleFilters(SplitFold(input, TokOr)))
        /\ input = ExampleAnd =>
               parsed.filter = NewAndFilterGroup(
                   << NewQueryFilter(<<"n","a","m","e">>, OperatorEquals, StringValue(<<"'","T","e","s","t","'">>)),
                      NewQueryFilter(<<"a","c","t","i","v","e">>, OperatorEquals, BoolValue(TRUE)) >>)

\* the field names of a group member: a condition, or a group of conditions
MemberFields(x) ==
    IF x.kind = "QueryFilter" THEN {x.Field}
    ELSE IF x.kind = "FilterGroup" THEN {x.Items[i].Field : i \in 1..Len(x.Items)}
    ELSE {}

\* every field name in a parser result
FieldsOf(x) ==
    IF x.kind = "FilterGroup"
    THEN UNION {MemberFields(x.Items[i]) : i \in 1..Len(x.Items)}
    ELSE MemberFields(x)

\* C12: every field name in the parser's output is, character for character,
\* text the caller wrote: it occurs in the filter string in the same letter
\* case, whether the string is a simple condition, an AND/OR group or a
\* parenthesised group.
C12_FieldNamesVerbatim ==
    parsed.done => \A f \in FieldsOf(parsed.filter) : Contains(input, f)

\* the string holds no connective: ParseFilterString parses it as one simple
\* condition
IsSimpleCondition(s) ==
    s # <<>> /\ ~Contains(ToUpper(s), TokAnd) /\ ~Contains(ToUpper(s), TokOr)

\* the operator tokens in the order the simple-condition parser tries them
OperatorTokens ==
    << [tok |-> TokNotEquals, op |-> OperatorNotEquals],
       [tok |-> TokContains,  op |-> OperatorContains],
       [tok |-> <<">">>,      op |-> OperatorGreaterThan],
       [tok |-> <<"<">>,      op |-> OperatorLessThan],
       [tok |-> <<"=">>,      op |-> OperatorEquals] >>

\* the token is present in s (" contains " in any letter case)
TokenPresent(s, k) ==
    IF OperatorTokens[k].op = OperatorContains
    THEN Contains(ToLower(s), TokContains)
    ELSE Contains(s, OperatorTokens[k].tok)

AnyTokenPresent(s) == \E k \in 1..5 : TokenPresent(s, k)

\* the first token, in the order tried, that is present in s
FirstToken(s) ==
    CHOOSE k \in 1..5 : TokenPresent(s, k) /\ \A j \in 1..(k - 1) : ~TokenPresent(s, j)

\* the place of the first occurrence of token k in s
FirstOccurrence(s, k) ==
    IF OperatorTokens[k].op = OperatorContains
    THEN Index(ToLower(s), TokContains)
    ELSE Index(s, OperatorTokens[k].tok)

TextBefore(s, k) == TrimSpace(SubSeq(s, 1, FirstOccurrence(s, k) - 1))

TextAfter(s, k) ==
    TrimSpace(SubSeq(s, FirstOccurrence(s, k) + Len(OperatorTokens[k].tok), Len(s)))

\* C13: in a simple condition the first of the tokens !=, " contains ", >,
\* <, = that is present decides the operator, the field is the trimmed text
\* before its first occurrence and the value is the trimmed text after it,
\* also when the token occurs more than once: "a=b=c" gives (a, eq, "b=c").
C13_FirstTokenFirstOccurrence ==
    (parsed.done /\ IsSimpleCondition(input)) =>
        /\ AnyTokenPresent(input) =>
               /\ parsed.filter.Operator = OperatorTokens[FirstToken(input)].op
               /\ parsed.filter.Field = TextBefore(input, FirstToken(input))
               /\ parsed.filter.Operator \in ComparisonOperators =>
                      parsed.filter.Value =
                          parseValueWithOperator(<<>>, "",
                              TextAfter(input, FirstToken(input))).Value
        /\ input = ExampleRepeatedToken =>
               parsed.filter = NewQueryFilter(<<"a">>, OperatorEquals, StringValue(<<"b","=","c">>))

\* the segment is wholly wrapped in one pair of parentheses
Wrapped(seg) ==
    \E t \in {TrimSpace(seg)} :
        /\ HasPrefix(t, <<"(">>) /\ HasSuffix(t, <<")">>)
        /\ Len(t) >= 2
        /\ NoParens(SubSeq(t, 2, Len(t) - 1))

\* the text between the parentheses of a wrapped segment
Inside(seg) == SubSeq(TrimSpace(seg), 2, Len(TrimSpace(seg)) - 1)

\* the segment is a plain condition, or is wrapped with its conditions joined
\* by inner
PlainOrWrappedWith(seg, inner) ==
    \/ NoParens(seg) /\ ~Contains(ToUpper(seg), inner)
    \/ Wrapped(seg) /\ Contains(ToUpper(Inside(seg)), inner)

\* segs are the top-level segments of a nested filter string: two at least,
\* each a plain condition or wrapped with its conditions joined by inner,
\* and one at least wrapped
NestedCase(segs, inner) ==
    /\ Len(segs) >= 2
    /\ \A i \in 1..Len(segs) : PlainOrWrappedWith(segs[i], inner)
    /\ \E i \in 1..Len(segs) : Wrapped(segs[i])

\* x is a group of the connective logical with n conditions for items
IsGroupOfConditions(x, logical, n) ==
    /\ x.kind = "FilterGroup"
    /\ x.Operator = logical
    /\ Len(x.Items) = n
    /\ \A j \in 1..n : x.Items[j].kind = "QueryFilter"

\* x is a group of the connective logical with one item per segment, in the
\* written order: a group of innerOp for a wrapped segment, a condition for
\* a plain one
IsNestedGroup(x, logical, segs, innerOp, innerTok) ==
    /\ x.kind = "FilterGroup"
    /\ x.Operator = logical
    /\ Len(x.Items) = Len(segs)
    /\ \A i \in 1..Len(segs) :
          IF Wrapped(segs[i])
          THEN IsGroupOfConditions(x.Items[i], innerOp,
                                   Len(SplitFold(Inside(segs[i]), innerTok)))
          ELSE x.Items[i].kind = "QueryFilter"

\* C14: conditions joined by AND at the top level, with a segment wholly
\* wrapped in parentheses and joined inside by OR, parse to an AND-group
\* with one item per top-level segment in the written order, the wrapped
\* segment being an OR-group with one item per inner condition;
\* "(name='Test' OR name='Test2') AND active=true" gives an AND-group of
\* length 2 whose first item is an OR-group of length 2.
C14_NestedOrInAnd ==
    parsed.done =>
        /\ \A segs \in {SplitFold(input, TokAnd)} :
               NestedCase(segs, TokOr) =>
                   IsNestedGroup(parsed.filter, LogicalOperatorAnd, segs,
                                 LogicalOperatorOr, TokOr)
        /\ input = ExampleNestedOr =>
               /\ parsed.filter.kind = "FilterGroup"
               /\ parsed.filter.Operator = LogicalOperatorAnd
               /\ Len(parsed.filter.Items) = 2
               /\ parsed.filter.Items[1].kind = "FilterGroup"
               /\ parsed.filter.Items[1].Operator = LogicalOperatorOr
               /\ Len(parsed.filter.Items[1].Items) = 2

\* a condition, then " and ", then a wrapped segment joined inside by OR:
\* the group came out with the OR-group in second place
C14_Witness ==
    /\ parsed.done
    /\ NestedCase(SplitFold(input, TokAnd), TokOr)
    /\ ~Wrapped(SplitFold(input, TokAnd)[1])
    /\ Contains(input, <<" ","a","n","d"," ">>)
    /\ parsed.filter.Items[2].kind = "FilterGroup"
    /\ Len(parsed.filter.Items[2].Items) = 2

\* C15: conditions joined by OR at the top level, with a segment wholly
\* wrapped in parentheses and joined inside by AND, parse to an OR-group
\* with one item per top-level segment, the wrapped segment being an
\* AND-group with one item per inner condition; "(a=1 AND b=2) OR c=3" gives
\* an OR-group of length 2 whose first item is an AND-group of length 2.
C15_NestedAndInOr ==
    parsed.done =>
        /\ \A segs \in {SplitFold(input, TokOr)} :
               NestedCase(segs, TokAnd) =>
                   IsNestedGroup(parsed.filter, LogicalOperatorOr, segs,
                                 LogicalOperatorAnd, TokAnd)
        /\ input = ExampleNestedAnd =>
               /\ parsed.filter.kind = "FilterGroup"
               /\ parsed.filter.Operator = LogicalOperatorOr
               /\ Len(parsed.filter.Items) = 2
               /\ parsed.filter.Items[1].kind = "FilterGroup"
               /\ parsed.filter.Items[1].Operator = LogicalOperatorAnd
               /\ Len(parsed.filter.Items[1].Items) = 2

\* C16: a filter string without parentheses that holds both " AND " and
\* " OR ", in any letter case, gives an AND-group with one item per
\* AND-separated segment, every item a single condition and none a group; a
\* string that holds only " OR " gives an OR-group with one item per
\* OR-separated segment.
C16_AndBeforeOr ==
    (parsed.done /\ NoParens(input)) =>
        /\ (Contains(ToUpper(input), TokAnd) /\ Contains(ToUpper(input), TokOr)) =>
               IsGroupOfConditions(parsed.filter, LogicalOperatorAnd,
                                   Len(SplitFold(input, TokAnd)))
        /\ JoinedByOrOnly(input) =>
               IsGroupOfConditions(parsed.filter, LogicalOperatorOr,
                                   Len(SplitFold(input, TokOr)))

\* "Status=1 AND AssignedTo=123 or AssignedTo=456" was parsed: two items,
\* the second one a condition with the " OR " left inside its value
C16_Witness ==
    /\ parsed.done
    /\ input = ExampleMixed
    /\ Len(parsed.filter.Items) = 2
    /\ parsed.filter.Items[2].kind = "QueryFilter"

Quotes == {"'", "\""}

\* the place of an operator in OperatorTokens
TokenOf(operator) ==
    (CHOOSE k \in 1..5 : OperatorTokens[k].op = operator)

\* the value as the caller wrote it in a simple condition whose operator was
\* recognised: the trimmed text after the operator's token
WrittenValue(s, operator) == TextAfter(s, TokenOf(operator))

\* C17: in a simple condition using =, !=, > or < the value text true or
\* false becomes a boolean and any other non-numeric value is the string the
\* caller wrote, surrounding quotes retained; for contains the surrounding
\* quotes are stripped from the value.
C17_ValueConversion ==
    (parsed.done /\ IsSimpleCondition(input)) =>
        /\ parsed.filter.Operator \in ComparisonOperators =>
               /\ WrittenValue(input, parsed.filter.Operator) = <<"t","r","u","e">>
                      => parsed.filter.Value = BoolValue(TRUE)
               /\ WrittenValue(input, parsed.filter.Operator) = <<"f","a","l","s","e">>
                      => parsed.filter.Value = BoolValue(FALSE)
               /\ (/\ WrittenValue(input, parsed.filter.Operator) \notin {<<"t","r","u","e">>, <<"f","a","l","s","e">>}
                   /\ ~IsNumberText(WrittenValue(input, parsed.filter.Operator)))
                      => parsed.filter.Value =
                             StringValue(WrittenValue(input, parsed.filter.Operator))
        /\ parsed.filter.Operator = OperatorContains =>
               /\ parsed.filter.Value.t = "string"
               /\ ToLower(parsed.filter.Value.s) =
                      ToLower(TrimSet(WrittenValue(input, OperatorContains), Quotes))

\* "Name='T'" was parsed: the value is the string 'T' with its quotes
C17_Witness ==
    /\ parsed.done
    /\ input = CondName
    /\ parsed.filter.Operator = OperatorEquals
    /\ parsed.filter.Value = StringValue(<<"'","T","'">>)

\* no part of the result is a run-time panic
NoPanic(x) ==
    /\ x.kind # "panic"
    /\ x.kind = "FilterGroup" =>
          \A i \in 1..Len(x.Items) :
              /\ x.Items[i].kind # "panic"
              /\ x.Items[i].kind = "FilterGroup" =>
                     \A j \in 1..Len(x.Items[i].Items) : x.Items[i].Items[j].kind # "panic"

\* C18: ParseFilterString never panics, whatever the input; it returns no
\* filter exactly when the input is the empty string, and a condition or a
\* group otherwise; a simple condition in which no operator token occurs
\* yields the zero-value QueryFilter.
C18_NeverFailsNilOnlyForEmpty ==
    parsed.done =>
        /\ NoPanic(parsed.filter)
        /\ (parsed.filter = NoFilter) <=> (input = <<>>)
        /\ input # <<>> => parsed.filter.kind \in {"QueryFilter", "FilterGroup"}
        /\ (IsSimpleCondition(input) /\ ~AnyTokenPresent(input)) =>
               parsed.filter = ZeroQueryFilter

\* "invalid filter" was parsed to the zero-value QueryFilter
C18_Witness ==
    /\ parsed.done
    /\ input = ExampleInvalid
    /\ parsed.filter = ZeroQueryFilter
    /\ parsed.filter # NoFilter

\* C19: GetPreviousPage called with page details whose previous-page cursor
\* is empty returns the error "no previous page available" and nil items,
\* not an empty result with a nil error.
C19_NoPreviousPageIsAnError ==
    (op = "GetPreviousPage" /\ result.returned /\ call.PrevPageUrl = EmptyUrl) =>
        /\ result.err = "no previous page available"
        /\ result.items = <<>>

PagesBeforeLastNonEmpty == \A k \in 1..(Len(pages) - 1) : Len(pages[k].items) > 0

IsPrefix(a, b) == Len(a) <= Len(b) /\ SubSeq(b, 1, Len(a)) = a

\* C20: on a server whose every page before the last one is non-empty, the
\* items read with Item() after each true Next() are the items of page 1,
\* page 2, ... in server order, each once and none skipped or repeated at a
\* page boundary, never nil; and when Next() returns false without a failed
\* fetch, they are all the items up to the last page.
C20_IteratorYieldsEveryItemInOrder ==
    (op = "iterator" /\ it.exists /\ PagesBeforeLastNonEmpty) =>
        /\ IsPrefix(yielded, ItemsUpTo(Len(pages)))
        /\ \A i \in 1..Len(yielded) : yielded[i] # NilValue
        /\ (lastNext.called /\ lastNext.ret) => yielded[Len(yielded)] = Item(it)
        /\ (lastNext.called /\ ~lastNext.ret /\ lastNext.fetch # "failed") =>
               yielded = ItemsUpTo(Len(pages))

\* three pages were read to the end: Next() returned false after every item
\* was yielded across two page boundaries
C20_Witness ==
    /\ op = "iterator" /\ it.exists
    /\ Len(pages) = 3
    /\ PagesBeforeLastNonEmpty
    /\ Len(pages[3].items) > 0
    /\ lastNext.called /\ ~lastNext.ret
    /\ yielded = ItemsUpTo(3)
    /\ Len(requests) = 3

\* C21: FetchPage starts with the first-page request: whatever the target
\* page, its first request is the query of the parsed filter with
\* max-records = page size and nothing that depends on the target page, which
\* only decides how many cursors are followed afterwards.
C21_FetchPageStartsAtFirstPage ==
    op = "FetchPage" =>
        /\ Len(requests) >= 1
        /\ requests[1].req =
               WithMaxRecords(NewEntityQueryParams(QueryFilterOf(call.filter)),
                              call.pageSize)
        /\ \A i \in 2..Len(requests) : requests[i].req.kind = "url"

\* the 1-based number of the page of the chain that holds item x, 0 if none
PageOfItem(x) ==
    IF \E k \in 1..Len(pages) : \E i \in 1..Len(pages[k].items) : pages[k].items[i] = x
    THEN CHOOSE k \in 1..Len(pages) :
            \E i \in 1..Len(pages[k].items) : pages[k].items[i] = x
    ELSE 0

\* C22: after Next() returned true, CurrentPage() is the 1-based number of
\* the page the current item was fetched in.
C22_CurrentPageIsPageOfCurrentItem ==
    (op = "iterator" /\ it.exists /\ lastNext.called /\ lastNext.ret) =>
        CurrentPage(it) = PageOfItem(Item(it))

\* C23: the filter carried by the request of Count is the parsed form of the
\* non-empty filter string the caller passed, for every entity.
C23_CountSendsCallersFilter ==
    (op = "Count" /\ call.filter # <<>>) =>
        /\ Len(requests) = 1
        /\ requests[1].req.kind = "count"
        /\ requests[1].req.filter = ParseFilterString(call.filter)

\* the webhook service has answered a request and nothing was registered or
\* configured since
Handled == op = "webhook" /\ webhook.last.handled

\* the request's signature header is the signature of its body under the
\* configured secret
SignatureMatches == webhook.last.request.Signature =
                        Sign(webhook.secret, webhook.last.request.Body)

Accepted ==
    /\ Handled
    /\ webhook.last.request.Method = "POST"
    /\ webhook.last.request.Body.kind = "event"
    /\ webhook.secret # NoSecret => SignatureMatches

\* C25: for an accepted event the handlers registered for its type are
\* invoked once each in registration order, whether or not one of them
\* returns an error, and the status is 200.
C25_EveryHandlerInRegistrationOrder ==
    Accepted =>
        \A hs \in {handlersOf(webhook.handlers, webhook.last.request.Body.EventType)} :
            /\ webhook.last.status = 200
            /\ Len(webhook.last.calls) = Len(hs)
            /\ \A i \in 1..Len(hs) :
                  /\ webhook.last.calls[i].handler = hs[i].name
                  /\ webhook.last.calls[i].event = webhook.last.request.Body

\* a failing handler registered before another one for the same event type,
\* and both were called
C25_Witness ==
    /\ Accepted
    /\ Len(webhook.last.calls) >= 2
    /\ webhook.last.calls[1].err
    /\ webhook.last.status = 200

\* C29: whenever GetZoneInfo returned without an error the base URL is set,
\* and NewRequest never resolves against a missing base URL.
C29_BaseURLSetWheneverZoneReturned ==
    op = "client" =>
        /\ (client.last.fn = "GetZoneInfo" /\ ~client.last.err) => client.baseURL # NilURL
        /\ client.last.fn = "NewRequest" => client.last.outcome # "panic"

\* the next-page cursor a served page carries: none ("") when the field is
\* empty, null or missing
CursorOf(page) == IF HasNoCursor(page) THEN EmptyUrl ELSE page.next

\* C26: in FetchAllPages, FetchAllPagesWithCallback and FetchPage the cursor
\* that decides whether and where to fetch next is the one of the page just
\* fetched: none if that page carries none, whatever earlier pages carried.
C26_CursorOfPageJustFetched ==
    (op \in {"FetchAllPages", "FetchAllPagesWithCallback", "FetchPage"}
        /\ pc \in {"loop", "break"}) =>
        nextPageUrl = CursorOf(Serve(requests[Len(requests)].req))

\* what the iterator holds besides its position in the buffered page
Held(p) == <<p.items, p.nextPageUrl, p.totalCount, p.currentPage, p.hasMore>>

\* the last Next() returned false because its page fetch failed
FetchFailed == op = "iterator" /\ it.exists /\ lastNext.called /\ lastNext.fetch = "failed"

\* C27: a Next() whose page fetch fails returns false and leaves the buffered
\* page, the cursor, the total count and the page counter as they were; the
\* Next() after it issues the same request again and, if that succeeds,
\* stands on the first item of the page fetched.
C27_FailedFetchIsRetried ==
    [][NextCalled =>
        /\ lastNext'.fetch = "failed" => (~lastNext'.ret /\ Held(it') = Held(it))
        /\ FetchFailed =>
              /\ Len(requests') = Len(requests) + 1
              /\ requests'[Len(requests')].req = UrlRequest(it.nextPageUrl)
              /\ requests'[Len(requests')].req = requests[Len(requests)].req
              /\ lastNext'.fetch = "ok" =>
                    /\ it'.items = Serve(UrlRequest(it.nextPageUrl)).items
                    /\ it'.currentIndex = 0
                    /\ lastNext'.ret = (it'.items # <<>>)
                    /\ lastNext'.ret => yielded' = Append(yielded, it'.items[1])]_vars

\* a fetch by cursor failed, the next Next() repeated it with success and
\* yielded the first item of that page
C27_Witness ==
    /\ op = "iterator" /\ it.exists
    /\ lastNext.called /\ lastNext.ret /\ lastNext.fetch = "ok"
    /\ Len(requests) >= 3
    /\ ~requests[Len(requests) - 1].ok
    /\ requests[Len(requests) - 1].req = requests[Len(requests)].req
    /\ it.currentIndex = 0
    /\ yielded # <<>> /\ yielded[Len(yielded)] = it.items[1]

\* some fetch of the operation failed
SomeFetchFailed == \E i \in 1..Len(requests) : ~requests[i].ok

\* C28: when a page fetch fails, on the first page or later, FetchAllPages
\* returns the error with a nil item list, not the items gathered before, and
\* FetchPage returns the error with no page.
C28_FailureReturnsNothing ==
    (op \in {"FetchAllPages", "FetchPage"} /\ SomeFetchFailed) =>
        /\ ~requests[Len(requests)].ok
        /\ pc = "done"
        /\ result.returned
        /\ result.err # ""
        /\ result.items = <<>>
        /\ result.page = ZeroResponse

\* FetchAllPages had gathered items from two pages when a later fetch failed
C28_Witness ==
    /\ op = "FetchAllPages"
    /\ Len(requests) >= 3
    /\ SomeFetchFailed
    /\ allItems # <<>>
    /\ result.returned /\ result.items = <<>>

\* the operators of a group member: a condition, or a group of conditions
MemberOperators(x) ==
    IF x.kind = "QueryFilter" THEN {x.Operator}
    ELSE IF x.kind = "FilterGroup" THEN {x.Items[i].Operator : i \in 1..Len(x.Items)}
    ELSE {}

\* the operator of every QueryFilter in a parser result
OperatorsOf(x) ==
    IF x.kind = "FilterGroup"
    THEN UNION {MemberOperators(x.Items[i]) : i \in 1..Len(x.Items)}
    ELSE MemberOperators(x)

\* C30: every QueryFilter the parser produces carries equals, not-equals,
\* contains, greater-than, less-than or the empty operator of the zero-value
\* filter; ">=" and "<=" are never parsed as operators of their own.
C30_OnlyFiveOperators ==
    parsed.done =>
        OperatorsOf(parsed.filter) \subseteq
            {OperatorEquals, OperatorNotEquals, OperatorContains,
             OperatorGreaterThan, OperatorLessThan, ""}

\* a condition written with ">=" was parsed as greater-than
C30_Witness ==
    /\ parsed.done
    /\ Contains(input, <<">", "=">>)
    /\ parsed.filter.kind = "QueryFilter"
    /\ parsed.filter.Operator = OperatorGreaterThan

====
